---- MODULE Spec2Model ----
(***************************************************************************)
(* Model of src/main.py: the contact/record data model (Phone, Birthday,   *)
(* Record, AddressBook), the upcoming-birthday computation                 *)
(* (BirthdayManager), the input_error decorator, the command handlers and  *)
(* the command loop of main().                                             *)
(*                                                                         *)
(* Strings that the code inspects character by character (phone values)    *)
(* are sequences of characters; a character is a one-element name, with    *)
(* "U+00B2" standing for the code point SUPERSCRIPT TWO.  Names, commands  *)
(* and messages, which the code only compares and stores, are TLA+ strings.*)
(* A datetime is a record [year, month, day, tick]; tick is the time of    *)
(* day, 0 being midnight.  An exception is an outcome value                 *)
(* [kind |-> "raise", exc |-> <class>].                                    *)
(***************************************************************************)
EXTENDS Integers, Sequences, FiniteSets, TLC

VARIABLES
    data,   \* AddressBook.data: the entries <<[key, rec]>> in insertion order
    pc,     \* main(): "running", "exited" (break) or "crashed" (uncaught exception)
    call,   \* the operation invoked last, with its arguments
    ret     \* its outcome: a returned value or a raised exception

vars == <<data, pc, call, ret>>

(***************************************************************************)
(* Bounds of the model.                                                    *)
(***************************************************************************)
MaxStrLen == 11      \* longest phone string tried by the Phone check
MaxPhones == 2       \* most phones a record is grown to
TicksPerDay == 2     \* times of day distinguished: 0 (midnight) .. TicksPerDay-1
BaseYear == 2023     \* first year "today" is drawn from
YearSpan == 1        \* "today" is drawn from BaseYear .. BaseYear+YearSpan

(***************************************************************************)
(* Program constants.                                                      *)
(***************************************************************************)
PhoneLen == 10       \* len(value) != 10
DefaultDays == 7     \* get_upcoming_birthdays(address_book, days=7)
Saturday == 5        \* birthday.weekday() >= 5
Monday == 0          \* find_next_weekday(birthday, 0)
WeekLen == 7         \* days_ahead += 7

None == [none |-> TRUE]

Return(v) == [kind |-> "return", val |-> v]
Raise(e) == [kind |-> "raise", exc |-> e]
Raised(r) == r.kind = "raise"

(***************************************************************************)
(* Characters and str.isdigit().                                           *)
(***************************************************************************)
AsciiDigits == {"0", "1", "2", "3", "4", "5", "6", "7", "8", "9"}

\* Characters outside 0-9 for which str.isdigit() is True (Numeric_Type=Digit
\* or Decimal): the superscript two is one of them.
OtherUnicodeDigits == {"U+00B2"}

Chars == {"0", "1", "a", "U+00B2"}

\* str.isdigit(): every character is a digit and there is at least one.
isdigit(s) ==
    /\ Len(s) > 0
    /\ \A i \in 1..Len(s) : s[i] \in AsciiDigits \cup OtherUnicodeDigits

\* Phone.__init__: the Phone object, or CheckPhoneNumber.
Phone(value) ==
    IF ~isdigit(value)
    THEN [kind |-> "raise", exc |-> "CheckPhoneNumber",
          msg |-> [text |-> "Phone {value} is not digit", value |-> value]]
    ELSE IF Len(value) # PhoneLen
    THEN [kind |-> "raise", exc |-> "CheckPhoneNumber",
          msg |-> [text |-> "Phone {value} > 10 digits", value |-> value]]
    ELSE Return([value |-> value])

(***************************************************************************)
(* The calendar of datetime.                                               *)
(***************************************************************************)
IsLeap(y) == (y % 4 = 0) /\ ((y % 100 # 0) \/ (y % 400 = 0))

DaysInMonth(y, m) ==
    IF m = 2 THEN (IF IsLeap(y) THEN 29 ELSE 28)
    ELSE IF m \in {4, 6, 9, 11} THEN 30 ELSE 31

DaysBeforeYear(y) ==
    (y - 1) * 365 + ((y - 1) \div 4) - ((y - 1) \div 100) + ((y - 1) \div 400)

RECURSIVE DaysBeforeMonth(_, _)
DaysBeforeMonth(y, m) ==
    IF m = 1 THEN 0 ELSE DaysBeforeMonth(y, m - 1) + DaysInMonth(y, m - 1)

\* datetime.toordinal(): 1 is 0001-01-01.
toordinal(d) == DaysBeforeYear(d.year) + DaysBeforeMonth(d.year, d.month) + d.day

\* datetime.weekday(): Monday is 0, Sunday is 6.
weekday(d) == (toordinal(d) + 6) % 7

\* The position of a datetime on the time line, in ticks.
Stamp(d) == toordinal(d) * TicksPerDay + d.tick

\* datetime.__lt__
Before(a, b) == Stamp(a) < Stamp(b)

\* (a - b).days: timedelta normalises to the floor of the difference in days.
DeltaDays(a, b) == (Stamp(a) - Stamp(b)) \div TicksPerDay

NextDay(d) ==
    IF d.day < DaysInMonth(d.year, d.month) THEN [d EXCEPT !.day = d.day + 1]
    ELSE IF d.month < 12 THEN [d EXCEPT !.month = d.month + 1, !.day = 1]
    ELSE [d EXCEPT !.year = d.year + 1, !.month = 1, !.day = 1]

\* d + timedelta(days=n), n >= 0.
RECURSIVE PlusDays(_, _)
PlusDays(d, n) == IF n = 0 THEN d ELSE PlusDays(NextDay(d), n - 1)

\* datetime.replace(year=y): ValueError when the day does not exist in year y.
replace_year(d, y) ==
    IF d.day > DaysInMonth(y, d.month)
    THEN Raise("ValueError")
    ELSE Return([d EXCEPT !.year = y])

\* datetime.strptime(value, "%d.%m.%Y") on a text that splits at "." into the
\* fields dd, mm, yyyy (wellformed) or does not: the midnight of that day, or
\* ValueError when the text does not match or names no calendar day.
strptime(value) ==
    IF /\ value.wellformed
       /\ value.yyyy \in 1..9999
       /\ value.mm \in 1..12
       /\ value.dd \in 1..DaysInMonth(value.yyyy, value.mm)
    THEN Return([year |-> value.yyyy, month |-> value.mm, day |-> value.dd, tick |-> 0])
    ELSE Raise("ValueError")

\* Birthday.__init__: ValueError is raised again as ValueError.
Birthday(value) ==
    IF Raised(strptime(value))
    THEN Raise("ValueError")
    ELSE Return([value |-> strptime(value).val])

\* strftime("%d.%m.%Y"): the three fields, zero padded by the format.
strftime(d) == [dd |-> d.day, mm |-> d.month, yyyy |-> d.year, wellformed |-> TRUE]

(***************************************************************************)
(* Record.                                                                 *)
(***************************************************************************)
\* Record.__init__
Record(name) == [name |-> [value |-> name], phones |-> <<>>, birthday |-> None]

\* The values of a phone sequence, in order.
Values(phones) == [i \in 1..Len(phones) |-> phones[i].value]

\* Record.__str__
RecordStr(rec) ==
    [name |-> rec.name.value,
     phones |-> Values(rec.phones),
     birthday |-> IF rec.birthday # None THEN strftime(rec.birthday.value)
                  ELSE [text |-> "N/A"]]

\* A method's effect: the record after the call and the call's outcome.
Effect(rec, out) == [rec |-> rec, out |-> out]

\* Record.add_phone: Phone(phone) is built first, so nothing is appended
\* when it raises.
add_phone(rec, phone) ==
    IF Raised(Phone(phone))
    THEN Effect(rec, Phone(phone))
    ELSE Effect([rec EXCEPT !.phones = Append(@, Phone(phone).val)], Return(None))

\* Record.remove_phone
remove_phone(rec, phone) ==
    Effect([rec EXCEPT !.phones = SelectSeq(@, LAMBDA p : p.value # phone)],
           Return(None))

\* Record.remove_all_phones
remove_all_phones(rec) == Effect([rec EXCEPT !.phones = <<>>], Return(None))

\* edit_phone that assigns before it validates.
edit_phone_unchecked(rec, old_phone, new_phone) ==
    Effect([rec EXCEPT !.phones =
                [i \in 1..Len(@) |->
                    IF @[i].value = old_phone THEN [@[i] EXCEPT !.value = new_phone]
                    ELSE @[i]]],
           IF Raised(Phone(new_phone)) THEN Return(Phone(new_phone).msg)
           ELSE Return(None))

\* edit_phone that leaves the loop at the first match.
edit_phone_first_only(rec, old_phone, new_phone) ==
    IF Raised(Phone(new_phone))
    THEN Effect(rec, Return(Phone(new_phone).msg))
    ELSE Effect([rec EXCEPT !.phones =
                    [i \in 1..Len(@) |->
                        IF /\ @[i].value = old_phone
                           /\ \A j \in 1..(i - 1) : @[j].value # old_phone
                        THEN [@[i] EXCEPT !.value = new_phone]
                        ELSE @[i]]],
                Return(None))

\* Record.edit_phone: CheckPhoneNumber is caught and its text returned.
edit_phone(rec, old_phone, new_phone) ==
    IF Raised(Phone(new_phone))
    THEN Effect(rec, Return(Phone(new_phone).msg))
    ELSE Effect([rec EXCEPT !.phones =
                    [i \in 1..Len(@) |->
                        IF @[i].value = old_phone
                        THEN [@[i] EXCEPT !.value = Phone(new_phone).val.value]
                        ELSE @[i]]],
                Return(None))

\* Record.find_phone: the first phone with that value, or None.
find_phone(rec, phone) ==
    IF \E i \in 1..Len(rec.phones) : rec.phones[i].value = phone
    THEN rec.phones[CHOOSE i \in 1..Len(rec.phones) :
            /\ rec.phones[i].value = phone
            /\ \A j \in 1..(i - 1) : rec.phones[j].value # phone]
    ELSE None

\* Record.add_birthday
add_birthday_to(rec, birthday_date) ==
    IF Raised(Birthday(birthday_date))
    THEN Effect(rec, Birthday(birthday_date))
    ELSE Effect([rec EXCEPT !.birthday = Birthday(birthday_date).val], Return(None))

(***************************************************************************)
(* AddressBook: a dict, kept as its entries in insertion order.            *)
(***************************************************************************)
Keys(d) == {d[i].key : i \in 1..Len(d)}

IndexOf(d, name) == CHOOSE i \in 1..Len(d) : d[i].key = name

\* dict.__setitem__: an existing key keeps its place and gets the new value,
\* a new key goes last.
SetItem(d, key, rec) ==
    IF key \in Keys(d)
    THEN [d EXCEPT ![IndexOf(d, key)] = [key |-> key, rec |-> rec]]
    ELSE Append(d, [key |-> key, rec |-> rec])

\* add_record that keeps the phones of the record it finds under the name.
add_record_merging(d, record) ==
    IF record.name.value \in Keys(d)
    THEN SetItem(d, record.name.value,
                 [record EXCEPT !.phones = d[IndexOf(d, record.name.value)].rec.phones \o @])
    ELSE SetItem(d, record.name.value, record)

\* AddressBook.add_record
add_record(d, record) == SetItem(d, record.name.value, record)

\* AddressBook.find
find(d, name) == IF name \in Keys(d) THEN d[IndexOf(d, name)].rec ELSE None

\* AddressBook.delete
delete(d, name) ==
    IF name \in Keys(d) THEN SelectSeq(d, LAMBDA e : e.key # name) ELSE d

\* A method call on the record object that find(name) returned: the object is
\* the one the book holds, so the book sees the change.
Mutate(d, name, rec) == [d EXCEPT ![IndexOf(d, name)].rec = rec]

(***************************************************************************)
(* BirthdayManager.                                                        *)
(***************************************************************************)
\* BirthdayManager.find_next_weekday
find_next_weekday(start_date, wd) ==
    LET days_ahead == wd - weekday(start_date)
    IN  PlusDays(start_date,
                 IF days_ahead <= 0 THEN days_ahead + WeekLen ELSE days_ahead)

\* adjust_for_weekend with "> 5" for ">= 5": a Saturday stays.
adjust_for_weekend_sunday_only(birthday) ==
    IF weekday(birthday) > Saturday
    THEN find_next_weekday(birthday, Monday)
    ELSE birthday

\* BirthdayManager.adjust_for_weekend
adjust_for_weekend(birthday) ==
    IF weekday(birthday) >= Saturday
    THEN find_next_weekday(birthday, Monday)
    ELSE birthday

\* Lines 172-174: the birthday in today's year, moved to the next year when
\* it is before today (a datetime comparison); either replace may raise.
birthday_this_year(bvalue, today) ==
    IF Raised(replace_year(bvalue, today.year))
    THEN replace_year(bvalue, today.year)
    ELSE IF Before(replace_year(bvalue, today.year).val, today)
    THEN replace_year(bvalue, today.year + 1)
    ELSE replace_year(bvalue, today.year)

\* Line 176: the test that admits a record to the list.
InWindow(bty, today, days) ==
    (0 <= DeltaDays(bty, today)) /\ (DeltaDays(bty, today) <= days)

\* The loop of get_upcoming_birthdays from entry i on, acc being the list so
\* far: an exception in one record ends the call.
RECURSIVE UpcomingFrom(_, _, _, _, _)
UpcomingFrom(d, i, days, today, acc) ==
    IF i > Len(d) THEN Return(acc)
    ELSE IF d[i].rec.birthday = None THEN UpcomingFrom(d, i + 1, days, today, acc)
    ELSE LET bty == birthday_this_year(d[i].rec.birthday.value, today)
         IN  IF Raised(bty) THEN bty
             ELSE IF InWindow(bty.val, today, days)
             THEN UpcomingFrom(d, i + 1, days, today,
                               Append(acc, [Contact |-> d[i].key,
                                            date |-> adjust_for_weekend(bty.val),
                                            text |-> strftime(adjust_for_weekend(bty.val))]))
             ELSE UpcomingFrom(d, i + 1, days, today, acc)

\* BirthdayManager.get_upcoming_birthdays, today being datetime.today().
get_upcoming_birthdays(d, days, today) == UpcomingFrom(d, 1, days, today, <<>>)

(***************************************************************************)
(* input_error and the command handlers.  A handler's effect is the book   *)
(* after the call and the call's outcome.                                  *)
(***************************************************************************)
Result(d, out) == [data |-> d, out |-> out]

\* input_error.inner: ValueError, KeyError and IndexError become a message;
\* any other exception goes on to the caller.
input_error(eff) ==
    IF Raised(eff.out) /\ eff.out.exc = "ValueError"
    THEN Result(eff.data, Return("Incorrect value."))
    ELSE IF Raised(eff.out) /\ eff.out.exc \in {"KeyError", "IndexError"}
    THEN Result(eff.data, Return("Enter the argument for the command"))
    ELSE eff

\* "if phone:" - the truth value of a str
Truthy(s) == Len(s) > 0

\* add_contact, undecorated.  "name, phone, *_ = args" raises ValueError on
\* fewer than two values.
add_contact_body(args, d) ==
    IF Len(args) < 2 THEN Result(d, Raise("ValueError"))
    ELSE LET name == args[1]
             phone == args[2]
             d1 == IF find(d, name) = None THEN add_record(d, Record(name)) ELSE d
             message == IF find(d, name) = None THEN "Contact added."
                        ELSE "Contact updated."
             eff == add_phone(find(d1, name), phone)
         IN  IF ~Truthy(phone) THEN Result(d1, Return(message))
             ELSE IF Raised(eff.out) THEN Result(Mutate(d1, name, eff.rec), eff.out)
             ELSE Result(Mutate(d1, name, eff.rec), Return(message))

add_contact(args, d) == input_error(add_contact_body(args, d))

\* change_contact, undecorated.
change_contact_body(args, d) ==
    IF Len(args) < 2 THEN Result(d, Raise("ValueError"))
    ELSE LET name == args[1]
             phone == args[2]
             cleaned == remove_all_phones(find(d, name)).rec
             eff == add_phone(cleaned, phone)
         IN  IF find(d, name) = None THEN Result(d, Return("Contact not found."))
             ELSE IF Raised(eff.out) THEN Result(Mutate(d, name, eff.rec), eff.out)
             ELSE Result(Mutate(d, name, eff.rec), Return("Contact changed."))

change_contact(args, d) == input_error(change_contact_body(args, d))

\* get_phone
get_phone_body(args, d) ==
    IF Len(args) < 1 THEN Result(d, Raise("ValueError"))
    ELSE IF find(d, args[1]) = None THEN Result(d, Return("Contact not found!"))
    ELSE Result(d, Return(RecordStr(find(d, args[1]))))

get_phone(args, d) == input_error(get_phone_body(args, d))

\* add_birthday, undecorated.  The date argument is a word of the input
\* line, never empty, so "if birthday_date:" is taken.
add_birthday_body(args, d) ==
    IF Len(args) < 2 THEN Result(d, Raise("ValueError"))
    ELSE LET name == args[1]
             birthday_date == args[2]
             d1 == IF find(d, name) = None THEN add_record(d, Record(name)) ELSE d
             message == IF find(d, name) = None THEN "Contact added. Birthday updated."
                        ELSE "Contact birthday updated."
             eff == add_birthday_to(find(d1, name), birthday_date)
         IN  IF Raised(eff.out) THEN Result(Mutate(d1, name, eff.rec), eff.out)
             ELSE Result(Mutate(d1, name, eff.rec), Return(message))

add_birthday(args, d) == input_error(add_birthday_body(args, d))

\* show_birthday
show_birthday_body(args, d) ==
    IF Len(args) < 1 THEN Result(d, Raise("ValueError"))
    ELSE IF find(d, args[1]) = None THEN Result(d, Return("Contact not found!"))
    ELSE IF find(d, args[1]).birthday # None
    THEN Result(d, Return(strftime(find(d, args[1]).birthday.value)))
    ELSE Result(d, Return(None))

show_birthday(args, d) == input_error(show_birthday_body(args, d))

\* birthdays: not decorated, days is the default.
birthdays(d, today) == Result(d, get_upcoming_birthdays(d, DefaultDays, today))

(***************************************************************************)
(* The inputs tried.                                                       *)
(***************************************************************************)
Names == {"Bob", "Ann"}

\* The string of n characters c, with c2 at position k (k = 0: nowhere).
Str(n, c, k, c2) == [i \in 1..n |-> IF i = k THEN c2 ELSE c]

\* Every string of at most MaxStrLen characters that is one character
\* repeated, but for at most one position.
Strings ==
    {Str(n, c, k, c2) : n \in 0..MaxStrLen, c \in Chars, k \in 0..MaxStrLen, c2 \in Chars}

Zeros == Str(PhoneLen, "0", 0, "0")
Ones == Str(PhoneLen, "1", 0, "1")
Superscripts == Str(PhoneLen, "U+00B2", 0, "0")

\* Phone arguments of the commands: ten digits 0-9, ten superscript digits,
\* five digits, three letters.
PhoneArgs == {Zeros, Superscripts, Str(5, "0", 0, "0"), Str(3, "a", 0, "a")}

\* Phone arguments of the Record methods.
MethodPhones == {Zeros, Ones, Str(5, "0", 0, "0"), Str(3, "a", 0, "a")}

DateText(dd, mm, yyyy) == [dd |-> dd, mm |-> mm, yyyy |-> yyyy, wellformed |-> TRUE]

\* Date arguments: 15.06.1990, 29.02.2000, 31.02.2020 (no such day) and a
\* text that is not DD.MM.YYYY.
DateArgs ==
    {DateText(15, 6, 1990), DateText(29, 2, 2000), DateText(31, 2, 2020),
     [dd |-> 0, mm |-> 0, yyyy |-> 0, wellformed |-> FALSE]}

Years == BaseYear..(BaseYear + YearSpan)

\* The values datetime.today() takes in the command loop.
LoopTodays ==
    {[year |-> y, month |-> 6, day |-> dd, tick |-> t] :
        y \in Years, dd \in {10}, t \in 0..(TicksPerDay - 1)}

\* str.lower() on the command words tried.
lower(w) ==
    CASE w = "ADD" -> "add"
      [] w = "Exit" -> "exit"
      [] OTHER -> w

(***************************************************************************)
(* main(): one action per branch of the loop.  An input line is given as   *)
(* the words user_input.split() yields.                                    *)
(***************************************************************************)
\* parse_input: "cmd, *args = user_input.split()" raises ValueError on a
\* line without words.
parse_input(words) ==
    IF Len(words) = 0 THEN Raise("ValueError")
    ELSE Return([command |-> lower(words[1]), args |-> Tail(words)])

\* The loop after a decorated handler: an exception that input_error lets
\* through ends main(), a returned value is printed and the loop goes on.
AfterHandler(words, eff) ==
    /\ data' = eff.data
    /\ call' = [op |-> "main", line |-> words]
    /\ ret' = eff.out
    /\ pc' = IF Raised(eff.out) THEN "crashed" ELSE "running"

\* The line the loop reads has the command word w and the arguments args.
Reads(words, command) ==
    /\ pc = "running"
    /\ ~Raised(parse_input(words))
    /\ parse_input(words).val.command = command

\* The argument lists tried: none, a name, a name and a second argument,
\* and one list with a word too many.
ArgLists(seconds) ==
    {<<>>} \cup {<<n>> : n \in Names} \cup {<<n, s>> : n \in Names, s \in seconds}
    \cup {<<n, s, "please">> : n \in {"Bob"}, s \in {CHOOSE x \in seconds : TRUE}}

\* user_input has no words: parse_input raises outside any handler.
MainEmptyLine ==
    /\ pc = "running"
    /\ Raised(parse_input(<<>>))
    /\ call' = [op |-> "main", line |-> <<>>]
    /\ ret' = parse_input(<<>>)
    /\ pc' = "crashed"
    /\ UNCHANGED data

MainClose ==
    \E w \in {"close", "exit", "Exit"} :
        /\ Reads(<<w>>, lower(w))
        /\ lower(w) \in {"close", "exit"}
        /\ call' = [op |-> "main", line |-> <<w>>]
        /\ ret' = Return("Good bye!")
        /\ pc' = "exited"
        /\ UNCHANGED data

MainHello ==
    /\ Reads(<<"hello">>, "hello")
    /\ call' = [op |-> "main", line |-> <<"hello">>]
    /\ ret' = Return("How can I help you?")
    /\ UNCHANGED <<data, pc>>

MainAdd ==
    \E w \in {"add", "ADD"} :
        \E args \in ArgLists(PhoneArgs) :
            /\ w = "ADD" => args = <<>>
            /\ Reads(<<w>> \o args, "add")
            /\ (Len(args) >= 2 /\ find(data, args[1]) # None)
                    => Len(find(data, args[1]).phones) < MaxPhones
            /\ AfterHandler(<<w>> \o args, add_contact(args, data))

MainChange ==
    \E args \in ArgLists(PhoneArgs) :
            /\ Reads(<<"change">> \o args, "change")
            /\ AfterHandler(<<"change">> \o args, change_contact(args, data))

MainPhone ==
    \E args \in {<<>>} \cup {<<n>> : n \in Names} :
            /\ Reads(<<"phone">> \o args, "phone")
            /\ AfterHandler(<<"phone">> \o args, get_phone(args, data))

\* "all" prints every record.
MainAll ==
    /\ Reads(<<"all">>, "all")
    /\ call' = [op |-> "main", line |-> <<"all">>]
    /\ ret' = Return([i \in 1..Len(data) |-> RecordStr(data[i].rec)])
    /\ UNCHANGED <<data, pc>>

MainAddBirthday ==
    \E args \in ArgLists(DateArgs) :
            /\ Reads(<<"add-birthday">> \o args, "add-birthday")
            /\ AfterHandler(<<"add-birthday">> \o args, add_birthday(args, data))

MainShowBirthday ==
    \E args \in {<<>>} \cup {<<n>> : n \in Names} :
            /\ Reads(<<"show-birthday">> \o args, "show-birthday")
            /\ AfterHandler(<<"show-birthday">> \o args, show_birthday(args, data))

MainBirthdays ==
    \E today \in LoopTodays :
        /\ Reads(<<"birthdays">>, "birthdays")
        /\ AfterHandler(<<"birthdays">>, birthdays(data, today))

MainInvalid ==
    /\ Reads(<<"bye">>, "bye")
    /\ call' = [op |-> "main", line |-> <<"bye">>]
    /\ ret' = Return("Invalid command.")
    /\ UNCHANGED <<data, pc>>

\* load_data with no file: an empty AddressBook.
Init ==
    /\ data = <<>>
    /\ pc = "running"
    /\ call = [op |-> "start"]
    /\ ret = Return("Welcome to the assistant bot!")

Next ==
    \/ MainEmptyLine
    \/ MainClose
    \/ MainHello
    \/ MainAdd
    \/ MainChange
    \/ MainPhone
    \/ MainAll
    \/ MainAddBirthday
    \/ MainShowBirthday
    \/ MainBirthdays
    \/ MainInvalid

Spec == Init /\ [][Next]_vars

(***************************************************************************)
(* The methods of Record and AddressBook, called in any order on a book    *)
(* that starts empty.                                                      *)
(***************************************************************************)
\* The record a caller builds before add_record: Record(name), then
\* add_phone for each phone, then add_birthday when a date is given.
RECURSIVE WithPhones(_, _)
WithPhones(rec, ps) ==
    IF Len(ps) = 0 THEN rec ELSE WithPhones(add_phone(rec, Head(ps)).rec, Tail(ps))

Built(name, ps, dates) ==
    IF Len(dates) = 0 THEN WithPhones(Record(name), ps)
    ELSE add_birthday_to(WithPhones(Record(name), ps), Head(dates)).rec

NewRecords ==
    {Built(n, ps, ds) : n \in Names, ps \in {<<>>, <<Ones, Zeros>>},
                        ds \in {<<>>, <<DateText(15, 6, 1990)>>}}

\* The call of a Record method on the record stored under name.
OnRecord(op, name, args, eff) ==
    /\ data' = Mutate(data, name, eff.rec)
    /\ call' = [op |-> op, name |-> name, args |-> args]
    /\ ret' = eff.out
    /\ UNCHANGED pc

ApiAddRecord ==
    \E record \in NewRecords :
        /\ data' = add_record(data, record)
        /\ call' = [op |-> "add_record", name |-> record.name.value, args |-> <<record>>]
        /\ ret' = Return(None)
        /\ UNCHANGED pc

ApiDelete ==
    \E name \in Names :
        /\ data' = delete(data, name)
        /\ call' = [op |-> "delete", name |-> name, args |-> <<>>]
        /\ ret' = Return(None)
        /\ UNCHANGED pc

ApiAddPhone ==
    \E name \in Keys(data), phone \in MethodPhones :
        /\ Len(find(data, name).phones) < MaxPhones
        /\ OnRecord("add_phone", name, <<phone>>, add_phone(find(data, name), phone))

ApiRemovePhone ==
    \E name \in Keys(data), phone \in {Zeros, Ones} :
        OnRecord("remove_phone", name, <<phone>>, remove_phone(find(data, name), phone))

ApiRemoveAllPhones ==
    \E name \in Keys(data) :
        OnRecord("remove_all_phones", name, <<>>, remove_all_phones(find(data, name)))

ApiEditPhone ==
    \E name \in Keys(data), old_phone \in {Zeros, Ones}, new_phone \in MethodPhones :
        OnRecord("edit_phone", name, <<old_phone, new_phone>>,
                 edit_phone(find(data, name), old_phone, new_phone))

ApiFindPhone ==
    \E name \in Keys(data), phone \in {Zeros} :
        OnRecord("find_phone", name, <<phone>>,
                 Effect(find(data, name), Return(find_phone(find(data, name), phone))))

ApiAddBirthday ==
    \E name \in Keys(data), birthday_date \in {DateText(29, 2, 2000), DateText(31, 2, 2020)} :
        OnRecord("add_birthday", name, <<birthday_date>>,
                 add_birthday_to(find(data, name), birthday_date))

InitApi ==
    /\ data = <<>>
    /\ pc = "running"
    /\ call = [op |-> "start"]
    /\ ret = Return(None)

NextApi ==
    \/ ApiAddRecord
    \/ ApiDelete
    \/ ApiAddPhone
    \/ ApiRemovePhone
    \/ ApiRemoveAllPhones
    \/ ApiEditPhone
    \/ ApiFindPhone
    \/ ApiAddBirthday

SpecApi == InitApi /\ [][NextApi]_vars

(***************************************************************************)
(* Phone(value) on every string of Strings.                                *)
(***************************************************************************)
Start ==
    /\ pc = "running"
    /\ call = [op |-> "start"]
    /\ ret = Return(None)

PhoneNew ==
    \E value \in Strings :
        /\ call.op = "start"
        /\ call' = [op |-> "Phone", args |-> <<value>>]
        /\ ret' = Phone(value)
        /\ UNCHANGED <<data, pc>>

InitPhone == data = <<>> /\ Start

NextPhone == PhoneNew

SpecPhone == InitPhone /\ [][NextPhone]_vars

(***************************************************************************)
(* BirthdayManager on books of one and two records, at every today of      *)
(* Todays.                                                                 *)
(***************************************************************************)
\* Birthday texts: every DD.MM.2000 of January, February, June and December.
BirthdayTexts == {DateText(dd, mm, 2000) : dd \in 1..31, mm \in {1, 2, 6, 12}}

\* The book after add_record of a record with that birthday text; a text
\* Birthday() rejects leaves no book.
Book1(name, text) == add_record(<<>>, Built(name, <<>>, <<text>>))

Book2(text) ==
    add_record(add_record(Book1("Ann", DateText(15, 6, 1990)), Record("Cy")),
               Built("Bob", <<>>, <<text>>))

BirthdayBooks ==
    {Book1("Bob", t) : t \in {x \in BirthdayTexts : ~Raised(Birthday(x))}}
    \cup {Book2(t) : t \in {x \in BirthdayTexts : ~Raised(Birthday(x)) /\ x.mm = 6 /\ x.dd \in 10..17}}

\* The values of datetime.today(): every day of February, June and December
\* of Years, at every tick.
Todays ==
    {[year |-> y, month |-> m, day |-> dd, tick |-> t] :
        y \in Years, m \in {2, 6, 12}, dd \in 1..31, t \in 0..(TicksPerDay - 1)}
    \ {x \in [year : Years, month : {2, 6, 12}, day : 1..31, tick : 0..(TicksPerDay - 1)] :
        x.day > DaysInMonth(x.year, x.month)}

Windows == {0, DefaultDays}

\* The birthdays stored in the book.
Stored(d) == {d[i].rec.birthday.value : i \in {j \in 1..Len(d) : d[j].rec.birthday # None}}

BdayUpcoming ==
    \E days \in Windows, today \in Todays :
        /\ call.op = "start"
        /\ call' = [op |-> "get_upcoming_birthdays", args |-> <<days, today>>]
        /\ ret' = get_upcoming_birthdays(data, days, today)
        /\ UNCHANGED <<data, pc>>

BdayThisYear ==
    \E bvalue \in Stored(data), today \in Todays :
        /\ call.op = "start"
        /\ call' = [op |-> "birthday_this_year", args |-> <<bvalue, today>>]
        /\ ret' = birthday_this_year(bvalue, today)
        /\ UNCHANGED <<data, pc>>

BdayFindNextWeekday ==
    \E start_date \in Stored(data), wd \in 0..6 :
        /\ call.op = "start"
        /\ call' = [op |-> "find_next_weekday", args |-> <<start_date, wd>>]
        /\ ret' = Return(find_next_weekday(start_date, wd))
        /\ UNCHANGED <<data, pc>>

BdayAdjust ==
    \E birthday \in Stored(data) :
        /\ call.op = "start"
        /\ call' = [op |-> "adjust_for_weekend", args |-> <<birthday>>]
        /\ ret' = Return(adjust_for_weekend(birthday))
        /\ UNCHANGED <<data, pc>>

InitBday == data \in BirthdayBooks /\ Start

NextBday ==
    \/ BdayUpcoming
    \/ BdayThisYear
    \/ BdayFindNextWeekday
    \/ BdayAdjust

SpecBday == InitBday /\ [][NextBday]_vars

(***************************************************************************)
(* The claims.                                                             *)
(***************************************************************************)
IsTenDigits(v) == Len(v) = 10 /\ \A k \in 1..Len(v) : v[k] \in AsciiDigits

\* C1: whatever lines the command loop is given, it reports a message and
\* reads on; main() never ends by an uncaught exception, and it leaves the
\* loop only on the command close or exit.
C1_LoopSurvivesEveryLine ==
    /\ pc \in {"running", "exited"}
    /\ pc = "exited" => (call.op = "main" /\ lower(call.line[1]) \in {"close", "exit"})

\* The calendar days from today's date to the next day that has the month
\* and day of birthday b, time of day ignored.
CalendarDelta(b, today) ==
    LET occ == {toordinal([year |-> y, month |-> b.month, day |-> b.day, tick |-> 0]) :
                    y \in {yy \in today.year..(today.year + 8) :
                              b.day <= DaysInMonth(yy, b.month)}}
        next == CHOOSE o \in occ :
                    /\ o >= toordinal(today)
                    /\ \A o2 \in occ : o2 >= toordinal(today) => o <= o2
    IN  next - toordinal(today)

Contacts(list) == {list[i].Contact : i \in 1..Len(list)}

\* C2: get_upcoming_birthdays(book, days) lists a record that has a birthday
\* exactly when the calendar days from today's date to the next occurrence of
\* the birthday are in 0..days, at every time of day.
C2_WindowInCalendarDays ==
    (call.op = "get_upcoming_birthdays" /\ ~Raised(ret)) =>
        \A i \in 1..Len(data) :
            data[i].rec.birthday # None =>
                (data[i].key \in Contacts(ret.val)
                    <=> CalendarDelta(data[i].rec.birthday.value, call.args[2])
                            \in 0..call.args[1])

\* Month and day of a are an earlier calendar date than month and day of b.
EarlierInYear(a, b) == (a.month < b.month) \/ (a.month = b.month /\ a.day < b.day)

\* C3: the birthday goes to year today.year + 1 exactly when its day and
\* month are a strictly earlier calendar date than today's, time of day
\* ignored; for every stored birthday, 29 February included, the result is a
\* date not before today's.
C3_RollsOverOnlyWhenPast ==
    call.op = "birthday_this_year" =>
        /\ ~Raised(ret)
        /\ ret.val.year = (IF EarlierInYear(call.args[1], call.args[2])
                           THEN call.args[2].year + 1 ELSE call.args[2].year)
        /\ toordinal(ret.val) >= toordinal(call.args[2])

\* The days a weekend date is moved by: 2 from Saturday, 1 from Sunday.
Shift(d) == IF weekday(d) = 5 THEN 2 ELSE IF weekday(d) = 6 THEN 1 ELSE 0

\* The date e is the observance of birthday b in year y.
ObservanceOf(e, b, y) ==
    /\ b.day <= DaysInMonth(y, b.month)
    /\ toordinal(e) = toordinal([b EXCEPT !.year = y]) + Shift([b EXCEPT !.year = y])

\* C4: every date get_upcoming_birthdays emits is a Monday to Friday: the
\* birthday itself when that is a Monday to Friday, the Monday 2 days after a
\* Saturday, the Monday 1 day after a Sunday; find_next_weekday returns the
\* asked weekday 1 to 7 days after its start date.
C4_ObservedOnWorkdays ==
    /\ (call.op = "get_upcoming_birthdays" /\ ~Raised(ret)) =>
          \A i \in 1..Len(ret.val) :
              /\ weekday(ret.val[i].date) \in 0..4
              /\ \E y \in {call.args[2].year, call.args[2].year + 1} :
                    ObservanceOf(ret.val[i].date,
                                 find(data, ret.val[i].Contact).birthday.value, y)
    /\ call.op = "adjust_for_weekend" =>
          /\ weekday(ret.val) \in 0..4
          /\ toordinal(ret.val) = toordinal(call.args[1]) + Shift(call.args[1])
    /\ call.op = "find_next_weekday" =>
          /\ weekday(ret.val) = call.args[2]
          /\ toordinal(ret.val) - toordinal(call.args[1]) \in 1..7

\* A Saturday birthday was emitted as the Monday after it.
C4_Witness ==
    /\ call.op = "get_upcoming_birthdays"
    /\ ~Raised(ret)
    /\ \E i \in 1..Len(ret.val) :
          LET b == find(data, ret.val[i].Contact).birthday.value
              c == [b EXCEPT !.year = call.args[2].year]
          IN  /\ b.day <= DaysInMonth(c.year, b.month)
              /\ weekday(c) = 5
              /\ weekday(ret.val[i].date) = 0
              /\ toordinal(ret.val[i].date) = toordinal(c) + 2

\* C5: Phone(s) succeeds exactly when s is 10 characters, each a decimal
\* digit 0-9; when s fails both checks the error is the not-digit one.
C5_AcceptsExactlyTenDigits ==
    call.op = "Phone" =>
        /\ ~Raised(ret) <=> IsTenDigits(call.args[1])
        /\ (/\ Len(call.args[1]) # 10
            /\ \E k \in 1..Len(call.args[1]) : call.args[1][k] \notin AsciiDigits)
              => (Raised(ret) /\ ret.msg.text = "Phone {value} is not digit")

\* C6: every phone held in every record of the book is a string of exactly
\* 10 digits.
C6_PhonesAreTenDigits ==
    \A i \in 1..Len(data) :
        \A j \in 1..Len(data[i].rec.phones) : IsTenDigits(data[i].rec.phones[j].value)

C8_Book ==
    /\ \A i, j \in 1..Len(data) : data[i].key = data[j].key => i = j
    /\ \A i \in 1..Len(data) : data[i].key = data[i].rec.name.value

C8_AddRecord ==
    call'.op = "add_record" =>
        /\ find(data', call'.name) = call'.args[1]
        /\ Keys(data') = Keys(data) \cup {call'.name}
        /\ \A n \in Keys(data) \ {call'.name} : find(data', n) = find(data, n)

\* C8: in every state the book has one record per name under its own key,
\* and every add_record step replaces without merging and touches no other
\* entry.
C8_OneRecordPerNameNoMerge == []C8_Book /\ [][C8_AddRecord]_vars

\* add_record has just replaced the record of a name that was present: the
\* name is not the last key, and the record stored differs from a fresh one.
C8_Witness ==
    /\ call.op = "add_record"
    /\ Len(data) = 2
    /\ data[1].key = call.name
    /\ data[1].rec = call.args[1]
    /\ Len(data[1].rec.phones) = 2

\* C9: edit_phone(old, new) with a new value that Phone accepts sets every
\* entry equal to old to new and leaves the length, the other entries, the
\* name, the birthday and the rest of the book as they were; with no entry
\* equal to old the record is unchanged.
C9_EditPhoneReplacesMatches ==
    [][(call'.op = "edit_phone" /\ ~Raised(Phone(call'.args[2]))) =>
          LET before == find(data, call'.name)
              after == find(data', call'.name)
          IN  /\ Len(after.phones) = Len(before.phones)
              /\ \A i \in 1..Len(before.phones) :
                    after.phones[i].value =
                        (IF before.phones[i].value = call'.args[1]
                         THEN call'.args[2] ELSE before.phones[i].value)
              /\ after.name = before.name
              /\ after.birthday = before.birthday
              /\ (\A i \in 1..Len(before.phones) : before.phones[i].value # call'.args[1])
                    => data' = data
              /\ Keys(data') = Keys(data)
              /\ \A n \in Keys(data) \ {call'.name} : find(data', n) = find(data, n)
      ]_vars

\* edit_phone with an accepted new value, other than old, returned on a
\* record of two phones that now holds the new value.
C9_Witness ==
    /\ call.op = "edit_phone"
    /\ ~Raised(Phone(call.args[2]))
    /\ call.args[1] # call.args[2]
    /\ ret = Return(None)
    /\ Len(find(data, call.name).phones) = 2
    /\ \E j \in 1..2 : find(data, call.name).phones[j].value = call.args[2]
    /\ \A j \in 1..2 : find(data, call.name).phones[j].value # call.args[1]

\* The line has the command add, change or add-birthday and a phone or date
\* argument that fails validation.
FailsValidation(line) ==
    /\ Len(line) >= 3
    /\ \/ line[1] \in {"add", "change"} /\ Raised(Phone(line[3]))
       \/ line[1] = "add-birthday" /\ Raised(Birthday(line[3]))

\* C10: a command whose phone or date argument fails validation leaves the
\* address book exactly as it was.
C10_FailedCommandKeepsBook ==
    [][(call'.op = "main" /\ FailsValidation(call'.line)) => data' = data]_vars

====
